---- MODULE Spec2Model ----
(***************************************************************************)
(* Register accessors of the xHCI Debug Capability and of the xHCI Extended *)
(* Message Interrupt Capability.                                            *)
(*                                                                          *)
(* A register value (u16, u32 or u64) is the set of the positions of its 1  *)
(* bits, so that 64-bit values are exact.  Memory is the set of the bit     *)
(* addresses (8 * byte address + bit) that hold 1.                          *)
(***************************************************************************)
EXTENDS Integers, FiniteSets, Sequences, TLC

VARIABLES
    base,      \* the base address given to the constructor
    target,    \* the register the caller works on in this behaviour
    zero0,     \* whether the target register started all zero
    mem,       \* the backing memory: the set of bit addresses holding 1
    bound,     \* the accessors built by the constructor: register -> address
    pc,        \* "unbound", "idle" (no value held), "holding" (between read and write)
    snap,      \* the value the current update read
    cur,       \* the value the caller holds and modifies
    touched,   \* the fields whose setter was called in the current update
    calls,     \* the number of setter calls in the current update
    lastCall,  \* the last setter call: field, argument, value before it
    out,       \* what the last step was: "none", "new", "read", "set", "panic", "written"
    access,    \* the kind of the last memory access: "none", "read", "write"
    hw,        \* TRUE: Control is backed by the controller, FALSE: by a plain buffer
    phase      \* the controller's DbC state (hw only)

vars == <<base, target, zero0, mem, bound, pc, snap, cur, touched, calls,
          lastCall, out, access, hw, phase>>

-----------------------------------------------------------------------------
(* Bounds of the model. *)

\* Setter calls inside one read-modify-write update.
MaxCalls == 2

-----------------------------------------------------------------------------
(* Values. *)

\* The value whose hexadecimal digits are ds, most significant first.
RECURSIVE Hex(_)
Hex(ds) ==
    IF ds = <<>> THEN {}
    ELSE LET n == Len(ds)
             d == ds[n]
             low == {i \in 0..3 : (d \div (2 ^ i)) % 2 = 1}
         IN  low \cup {b + 4 : b \in Hex(SubSeq(ds, 1, n - 1))}

\* a + b on w-bit values, wrapping: ripple carry from bit i on.
RECURSIVE AddFrom(_, _, _, _, _)
AddFrom(a, b, i, carry, w) ==
    IF i >= w THEN {}
    ELSE LET n == (IF i \in a THEN 1 ELSE 0) + (IF i \in b THEN 1 ELSE 0) + carry
         IN  (IF n % 2 = 1 THEN {i} ELSE {}) \cup AddFrom(a, b, i + 1, n \div 2, w)

Add(a, b, w) == AddFrom(a, b, 0, 0, w)

\* u64::trailing_zeros() >= n
TrailingZerosAtLeast(a, n) == a \cap (0..(n - 1)) = {}

\* BitField::get_bit
get_bit(v, bit) == bit \in v

\* BitField::get_bits(lo..=hi): the range, shifted down to bit 0.
get_bits(v, lo, hi) == {b - lo : b \in v \cap (lo..hi)}

\* BitField::set_bit
set_bit(v, bit, x) == IF x THEN v \cup {bit} ELSE v \ {bit}

\* BitField::set_bits(lo..=hi, x): x fits in the range (the crate asserts it).
set_bits(v, lo, hi, x) == (v \ (lo..hi)) \cup {b + lo : b \in x}

\* A bool argument as a one-bit value, and back.
Bool(x) == 0 \in x

-----------------------------------------------------------------------------
(* Layout: the registers, their offsets, widths and fields. *)

DebugRegs == {"dcid", "dcdb", "dcerstsz", "dcerstba", "dcerdp", "dcctrl", "dcst",
              "dcportsc", "dccp", "dcddi1", "dcddi2"}

\* The public members of struct XhciExtendedMessageInterrupt.
XemiRegs == {"control", "upper_address", "table_offset"}

Regs == DebugRegs \cup XemiRegs

\* A faulty variant: the dequeue pointer bound at 0x14, inside the base address.
DebugOffset_Overlapping(r) ==
    CASE r = "dcid"     -> 0
      [] r = "dcdb"     -> 4
      [] r = "dcerstsz" -> 8
      [] r = "dcerstba" -> 16
      [] r = "dcerdp"   -> 20
      [] r = "dcctrl"   -> 32
      [] r = "dcst"     -> 36
      [] r = "dcportsc" -> 40
      [] r = "dccp"     -> 48
      [] r = "dcddi1"   -> 56
      [] r = "dcddi2"   -> 60

\* Debug::new: the offset of each register from base, in bytes.
DebugOffset(r) ==
    CASE r = "dcid"     -> 0
      [] r = "dcdb"     -> 4
      [] r = "dcerstsz" -> 8
      [] r = "dcerstba" -> 16
      [] r = "dcerdp"   -> 24
      [] r = "dcctrl"   -> 32
      [] r = "dcst"     -> 36
      [] r = "dcportsc" -> 40
      [] r = "dccp"     -> 48
      [] r = "dcddi1"   -> 56
      [] r = "dcddi2"   -> 60

\* #[repr(C)] XhciExtendedMessageInterrupt: _id: u8, _next: u8, control: u16,
\* upper_address: u32, table_offset: u32.
XemiOffset(r) ==
    CASE r = "control"       -> 2
      [] r = "upper_address" -> 4
      [] r = "table_offset"  -> 8

Offset(r) == IF r \in DebugRegs THEN DebugOffset(r) ELSE XemiOffset(r)

\* The width in bits of the integer each register type wraps.
Width(r) ==
    CASE r \in {"dcerstba", "dcerdp", "dccp"} -> 64
      [] r = "control" -> 16
      [] OTHER -> 32

\* The size in bytes of the block a register belongs to.
BlockSize(r) == IF r \in DebugRegs THEN 64 ELSE 12

F(n, lo, hi, c) == [name |-> n, lo |-> lo, hi |-> hi, cat |-> c]

\* Field categories: the seven macros, and "rw_fn" / "ro_fn" for the accessors
\* written out by hand.
Id_fields == {F("debug_capability_event_ring_segment_table_max", 16, 20, "ro_field")}

Doorbell_fields == {F("doorbell_target", 8, 15, "wo_field")}

EventRingSegmentTableSize_fields == {F("erst_size", 0, 15, "rw_fn")}

EventRingSegmentTableBaseAddress_fields == {F("erst_base_address", 0, 63, "rw_fn")}

EventRingDequeuePointer_fields ==
    {F("dequeue_erst_segment_index", 0, 2, "rw_field"),
     F("dequeue_pointer", 4, 63, "rw_fn")}

\* A faulty variant: DbC Run Change and Halt IN TR declared on each other's bit.
Control_fields_Swapped ==
    {F("dbc_run", 0, 0, "ro_bit"),
     F("link_status_event_enable", 1, 1, "rw_bit"),
     F("halt_out_tr", 2, 2, "rw1s_bit"),
     F("halt_in_tr", 4, 4, "rw1s_bit"),
     F("dbc_run_change", 3, 3, "rw1c_bit"),
     F("debug_max_burst_size", 16, 23, "ro_field"),
     F("device_address", 24, 30, "ro_field"),
     F("debug_capability_enable", 31, 31, "rw_bit")}

Control_fields ==
    {F("dbc_run", 0, 0, "ro_bit"),
     F("link_status_event_enable", 1, 1, "rw_bit"),
     F("halt_out_tr", 2, 2, "rw1s_bit"),
     F("halt_in_tr", 3, 3, "rw1s_bit"),
     F("dbc_run_change", 4, 4, "rw1c_bit"),
     F("debug_max_burst_size", 16, 23, "ro_field"),
     F("device_address", 24, 30, "ro_field"),
     F("debug_capability_enable", 31, 31, "rw_bit")}

Status_fields ==
    {F("event_ring_not_empty", 0, 0, "ro_bit"),
     F("dbc_system_bus_reset", 1, 1, "ro_bit"),
     F("debug_port_number", 24, 31, "ro_field")}

\* A faulty variant: Port Enabled/Disabled declared on bit 17, the bit of
\* Connect Status Change.
PortStatusAndControl_fields_Clash ==
    {F("current_connect_status", 0, 0, "ro_bit"),
     F("port_enabled_disabled", 17, 17, "rw_bit"),
     F("port_reset", 4, 4, "ro_bit"),
     F("port_link_state", 5, 8, "ro_field"),
     F("port_speed", 10, 13, "ro_field"),
     F("connect_status_change", 17, 17, "rw1c_bit"),
     F("port_reset_change", 21, 21, "rw1c_bit"),
     F("port_link_status_change", 22, 22, "rw1c_bit"),
     F("port_config_error_change", 23, 23, "rw1c_bit")}

PortStatusAndControl_fields ==
    {F("current_connect_status", 0, 0, "ro_bit"),
     F("port_enabled_disabled", 1, 1, "rw_bit"),
     F("port_reset", 4, 4, "ro_bit"),
     F("port_link_state", 5, 8, "ro_field"),
     F("port_speed", 10, 13, "ro_field"),
     F("connect_status_change", 17, 17, "rw1c_bit"),
     F("port_reset_change", 21, 21, "rw1c_bit"),
     F("port_link_status_change", 22, 22, "rw1c_bit"),
     F("port_config_error_change", 23, 23, "rw1c_bit")}

ContextPointer_fields == {F("context_pointer", 0, 63, "rw_fn")}

DeviceDescriptorInfo1_fields ==
    {F("dbc_protocol", 0, 7, "rw_field"), F("vendor_id", 16, 31, "rw_field")}

DeviceDescriptorInfo2_fields ==
    {F("product_id", 0, 15, "rw_field"), F("device_revision", 16, 31, "rw_field")}

MessageControl_fields ==
    {F("msi_x_enable", 15, 15, "rw_bit"), F("table_size", 0, 10, "ro_field")}

TableOffset_fields == {F("offset", 3, 31, "ro_fn"), F("bir", 0, 2, "ro_field")}

Fields(r) ==
    CASE r = "dcid"     -> Id_fields
      [] r = "dcdb"     -> Doorbell_fields
      [] r = "dcerstsz" -> EventRingSegmentTableSize_fields
      [] r = "dcerstba" -> EventRingSegmentTableBaseAddress_fields
      [] r = "dcerdp"   -> EventRingDequeuePointer_fields
      [] r = "dcctrl"   -> Control_fields
      [] r = "dcst"     -> Status_fields
      [] r = "dcportsc" -> PortStatusAndControl_fields
      [] r = "dccp"     -> ContextPointer_fields
      [] r = "dcddi1"   -> DeviceDescriptorInfo1_fields
      [] r = "dcddi2"   -> DeviceDescriptorInfo2_fields
      [] r = "control"  -> MessageControl_fields
      [] r = "table_offset" -> TableOffset_fields
      [] OTHER -> {}

Field(r, n) == CHOOSE f \in Fields(r) : f.name = n

Range(f) == f.lo .. f.hi

SetterCats == {"rw_bit", "rw1s_bit", "rw1c_bit", "rw_field", "wo_field", "rw_fn"}

\* The fields that are both read and written with the written value kept.
RwCats == {"rw_bit", "rw_field", "rw_fn"}

W1Cats == {"rw1s_bit", "rw1c_bit"}

-----------------------------------------------------------------------------
(* The accessor methods.  A setter yields [ok, val]: ok = FALSE is a panic, *)
(* and val is the register value the method leaves behind.                  *)

Done(v) == [ok |-> TRUE, val |-> v]

Panic(v) == [ok |-> FALSE, val |-> v]

\* The getter the bit macros generate.
bit_getter(v, bit) == get_bit(v, bit)

\* The getter ro_field! and rw_field! generate.
field_getter(v, lo, hi) == get_bits(v, lo, hi)

\* rw_bit!: the setter takes the bit's new value.
rw_bit_set(v, bit, b) == Done(set_bit(v, bit, b))

\* rw1s_bit!: the setter writes 1.
rw1s_bit_set(v, bit) == Done(set_bit(v, bit, TRUE))

\* rw1c_bit!: the setter (the clear) writes 1.
rw1c_bit_clear(v, bit) == Done(set_bit(v, bit, TRUE))

\* The setter rw_field! and wo_field! generate.
field_setter(v, lo, hi, x) == Done(set_bits(v, lo, hi, x))

EventRingSegmentTableSize_get(v) == get_bits(v, 0, 15)

\* A faulty variant: the whole register is overwritten with the size.
EventRingSegmentTableSize_set_Whole(v, sz) == Done(sz)

EventRingSegmentTableSize_set(v, sz) == Done(set_bits(v, 0, 15, sz))

EventRingSegmentTableBaseAddress_get(v) == v

\* A faulty variant: the address is stored without the alignment check.
EventRingSegmentTableBaseAddress_set_Unchecked(v, a) == Done(a)

EventRingSegmentTableBaseAddress_set(v, a) ==
    IF TrailingZerosAtLeast(a, 4) THEN Done(a) ELSE Panic(v)

\* self.0 & !0b1111
EventRingDequeuePointer_dequeue_pointer(v) == v \ {0, 1, 2, 3}

\* A faulty variant: the pointer overwrites the register, segment index included.
EventRingDequeuePointer_set_dequeue_pointer_Whole(v, a) ==
    IF TrailingZerosAtLeast(a, 4) THEN Done(a) ELSE Panic(v)

EventRingDequeuePointer_set_dequeue_pointer(v, a) ==
    IF TrailingZerosAtLeast(a, 4)
    THEN Done(set_bits(v, 4, 63, get_bits(a, 4, 63)))
    ELSE Panic(v)

ContextPointer_get(v) == v

\* A faulty variant: the address is stored before the alignment check.
ContextPointer_set_StoreFirst(v, a) ==
    IF TrailingZerosAtLeast(a, 4) THEN Done(a) ELSE Panic(a)

ContextPointer_set(v, a) ==
    IF TrailingZerosAtLeast(a, 4) THEN Done(a) ELSE Panic(v)

\* A faulty variant: only two low bits are masked off.
TableOffset_offset_Mask2(v) == v \ {0, 1}

\* self.0 & !0b111
TableOffset_offset(v) == v \ {0, 1, 2}

BitCats == {"ro_bit", "rw_bit", "rw1s_bit", "rw1c_bit"}

\* The getter of field f on value v; a bool is the one-bit value.
Get(f, v) ==
    CASE f.cat \in BitCats -> IF bit_getter(v, f.lo) THEN {0} ELSE {}
      [] f.cat \in {"ro_field", "rw_field"} -> field_getter(v, f.lo, f.hi)
      [] f.name = "erst_size" -> EventRingSegmentTableSize_get(v)
      [] f.name = "erst_base_address" -> EventRingSegmentTableBaseAddress_get(v)
      [] f.name = "dequeue_pointer" -> EventRingDequeuePointer_dequeue_pointer(v)
      [] f.name = "context_pointer" -> ContextPointer_get(v)
      [] f.name = "offset" -> TableOffset_offset(v)

\* The setter of field f on value v with argument x.
Set(f, v, x) ==
    CASE f.cat = "rw_bit" -> rw_bit_set(v, f.lo, Bool(x))
      [] f.cat = "rw1s_bit" -> rw1s_bit_set(v, f.lo)
      [] f.cat = "rw1c_bit" -> rw1c_bit_clear(v, f.lo)
      [] f.cat \in {"rw_field", "wo_field"} -> field_setter(v, f.lo, f.hi, x)
      [] f.name = "erst_size" -> EventRingSegmentTableSize_set(v, x)
      [] f.name = "erst_base_address" -> EventRingSegmentTableBaseAddress_set(v, x)
      [] f.name = "dequeue_pointer" -> EventRingDequeuePointer_set_dequeue_pointer(v, x)
      [] f.name = "context_pointer" -> ContextPointer_set(v, x)

\* The three setters that take a DMA address.
AddressFields == {"erst_base_address", "dequeue_pointer", "context_pointer"}

-----------------------------------------------------------------------------
(* The inputs the model draws. *)

Bases == {0, 256}

\* Addresses: aligned ones (0, 0x10, 0x1000, 0x8000_0000_0000_0010) and
\* misaligned ones (1, 8, 0x1004, 0x8000_0000_0000_0002).
AddressArgs == {{}, {4}, {12}, {4, 63}, {0}, {3}, {2, 12}, {1, 63}}

\* The arguments a setter of field f is called with: for a field of several
\* bits every value of its lowest and highest bit, which fits the field as
\* BitField::set_bits requires.
Args(f) ==
    CASE f.cat = "rw_bit" -> {{}, {0}}
      [] f.cat \in W1Cats -> {{0}}
      [] f.name \in AddressFields -> AddressArgs
      [] OTHER -> SUBSET {0, f.hi - f.lo}

\* The bits of a register that the starting content varies.
RawProbes(r) ==
    CASE r = "dcid"     -> {15, 16, 20, 21}
      [] r = "dcdb"     -> {7, 8, 15, 16}
      [] r = "dcerstsz" -> {0, 15, 16, 31}
      [] r = "dcerstba" -> {0, 3, 4, 12, 63}
      [] r = "dcerdp"   -> {0, 2, 3, 4, 63}
      [] r = "dcctrl"   -> {0, 1, 2, 4, 16, 23, 24, 31}
      [] r = "dcst"     -> {0, 1, 2, 24, 31}
      [] r = "dcportsc" -> {0, 1, 4, 5, 13, 17, 23}
      [] r = "dccp"     -> {0, 3, 4, 12, 63}
      [] r = "dcddi1"   -> {0, 7, 8, 16, 31}
      [] r = "dcddi2"   -> {0, 15, 16, 31}
      [] r = "control"  -> {0, 10, 11, 15}
      [] r = "upper_address" -> {0, 31}
      [] r = "table_offset"  -> {0, 1, 2, 3, 12, 31}

-----------------------------------------------------------------------------
(* Memory and the Single accessor. *)

\* The bit addresses of the w-bit unit at byte address a.
Unit(a, w) == (8 * a) .. (8 * a + w - 1)

\* Single::read: one access of the register's width at its address.
Single_read(m, a, w) == {b - 8 * a : b \in m \cap Unit(a, w)}

\* Single::write: one access of the register's width at its address.
Single_write(m, a, w, v) == (m \ Unit(a, w)) \cup {b + 8 * a : b \in v}

\* The 1-pattern of a buffer of n bytes at a: bits 0 and 31 of every 32-bit word.
Pattern(a, n) == {8 * a + 32 * k + j : k \in 0..((n \div 4) - 1), j \in {0, 31}}

\* The registers of the block r belongs to.
Block(r) == IF r \in DebugRegs THEN DebugRegs ELSE XemiRegs

\* The buffer when the behaviour starts: the pattern, with the target's
\* content in its place.
Mem0(b, r, raw) == Single_write(Pattern(b, BlockSize(r)), b + Offset(r), Width(r), raw)

\* Debug::new (and Single::new of the interrupt block): the address of each
\* register of the block.
new(b, r) == [q \in Block(r) |-> b + Offset(q)]

NoCall == [name |-> "", arg |-> {}, before |-> {}]

-----------------------------------------------------------------------------
(* The controller behind the Control register. *)

ControlBits(cats) == UNION {Range(f) : f \in {g \in Control_fields : g.cat \in cats}}

CBit(n) == Field("dcctrl", n).lo

\* What Control holds after the value w is written over the content stored:
\* RO bits keep the content, RW1S bits are set by a 1, RW1C bits are cleared by
\* a 1, the other bits take what is written.
HwControlWrite(stored, w) ==
    LET ro  == ControlBits({"ro_bit", "ro_field"})
        w1s == ControlBits({"rw1s_bit"})
        w1c == ControlBits({"rw1c_bit"})
    IN  (stored \cap ro)
          \cup (w \ (ro \cup w1s \cup w1c))
          \cup ((stored \cup w) \cap w1s)
          \cup ((stored \ w) \cap w1c)

\* The DbC state after the caller's write of w.
PhaseAfterWrite(ph, w) ==
    CASE ph = "Disabled" /\ CBit("debug_capability_enable") \in w -> "Configuring"
      [] ph = "Halted" /\ CBit("debug_capability_enable") \notin w -> "Disabled"
      [] ph = "Running" /\ w \cap {CBit("halt_out_tr"), CBit("halt_in_tr")} # {}
            -> "Halting"
      [] OTHER -> ph

-----------------------------------------------------------------------------
(* The state machine. *)

TargetAddr == base + Offset(target)

\* The content of the target register in memory.
Stored == Single_read(mem, TargetAddr, Width(target))

InitCommon ==
    /\ bound = <<>>
    /\ pc = "unbound"
    /\ snap = {}
    /\ cur = {}
    /\ touched = {}
    /\ calls = 0
    /\ lastCall = NoCall
    /\ out = "none"
    /\ access = "none"

\* A plain buffer holding any content.
Init ==
    /\ target \in Regs
    /\ base \in Bases
    /\ \E raw \in SUBSET RawProbes(target) :
          /\ mem = Mem0(base, target, raw)
          /\ zero0 = (raw = {})
    /\ hw = FALSE
    /\ phase = "none"
    /\ InitCommon

\* Construction binds the accessors and touches no memory.
New ==
    /\ pc = "unbound"
    /\ bound' = new(base, target)
    /\ pc' = "idle"
    /\ out' = "new"
    /\ UNCHANGED <<base, target, zero0, mem, snap, cur, touched, calls,
                   lastCall, access, hw, phase>>

\* Single::read, also the first half of Single::update.
Read ==
    /\ pc = "idle"
    /\ cur' = Single_read(mem, bound[target], Width(target))
    /\ snap' = cur'
    /\ touched' = {}
    /\ calls' = 0
    /\ lastCall' = NoCall
    /\ pc' = "holding"
    /\ out' = "read"
    /\ access' = "read"
    /\ UNCHANGED <<base, target, zero0, mem, bound, hw, phase>>

\* One setter call on the value held.  A panic unwinds: the update is over and
\* nothing is written.
CallSetter ==
    /\ pc = "holding"
    /\ calls < MaxCalls
    /\ \E f \in Fields(target) :
         /\ f.cat \in SetterCats
         /\ \E x \in Args(f) :
              LET res == Set(f, cur, x)
              IN  /\ lastCall' = [name |-> f.name, arg |-> x, before |-> cur]
                  /\ cur' = res.val
                  /\ IF res.ok
                     THEN /\ touched' = touched \cup {f.name}
                          /\ calls' = calls + 1
                          /\ out' = "set"
                          /\ pc' = pc
                     ELSE /\ out' = "panic"
                          /\ pc' = "idle"
                          /\ UNCHANGED <<touched, calls>>
    /\ UNCHANGED <<base, target, zero0, mem, bound, snap, access, hw, phase>>

\* Single::write, also the second half of Single::update.
Write ==
    /\ pc = "holding"
    /\ mem' = Single_write(mem, bound[target], Width(target),
                           IF hw THEN HwControlWrite(Stored, cur) ELSE cur)
    /\ phase' = IF hw THEN PhaseAfterWrite(phase, cur) ELSE phase
    /\ pc' = "idle"
    /\ out' = "written"
    /\ access' = "write"
    /\ UNCHANGED <<base, target, zero0, bound, snap, cur, touched, calls,
                   lastCall, hw>>

Next == New \/ Read \/ CallSetter \/ Write

Spec == Init /\ [][Next]_vars

\* The controller after reset, behind the Control register.
InitHw ==
    /\ target = "dcctrl"
    /\ base \in Bases
    /\ \E raw \in SUBSET {16, 24} :
          /\ mem = Mem0(base, target, raw)
          /\ zero0 = (raw = {})
    /\ hw = TRUE
    /\ phase = "Disabled"
    /\ InitCommon

\* Configuring -> Running: the controller asserts DbC Run.
HwRun ==
    /\ hw
    /\ phase = "Configuring"
    /\ mem' = Single_write(mem, TargetAddr, Width(target),
                           Stored \cup {CBit("dbc_run")})
    /\ phase' = "Running"
    /\ UNCHANGED <<base, target, zero0, bound, pc, snap, cur, touched, calls,
                   lastCall, out, access, hw>>

\* Halting -> Halted: the controller clears DbC Run and latches DbC Run Change.
HwHalt ==
    /\ hw
    /\ phase = "Halting"
    /\ mem' = Single_write(mem, TargetAddr, Width(target),
                           (Stored \ {CBit("dbc_run")}) \cup {CBit("dbc_run_change")})
    /\ phase' = "Halted"
    /\ UNCHANGED <<base, target, zero0, bound, pc, snap, cur, touched, calls,
                   lastCall, out, access, hw>>

NextHw == New \/ Read \/ CallSetter \/ Write \/ HwRun \/ HwHalt

SpecHw == InitHw /\ [][NextHw]_vars /\ WF_vars(HwRun) /\ WF_vars(HwHalt)

-----------------------------------------------------------------------------
(* Properties. *)

TargetField(n) == Field(target, n)

Aligned16(a) == a \cap {0, 1, 2, 3} = {}

\* The field of the last setter call.
Called == TargetField(lastCall.name)

\* C1: in a read-modify-write update with one setter call, the value written
\* carries 1 in an RW1C or RW1S bit only if that bit's own setter was called.
C1_W1OnlyByOwnSetter ==
    (out = "written" /\ calls = 1 /\ target \in {"dcctrl", "dcportsc"}) =>
        \A g \in Fields(target) :
            (g.cat \in W1Cats /\ g.lo \in cur) => g.name \in touched

\* Whether the setter of an RW field was called in the update.
RwTouched == \E n \in touched : TargetField(n).cat \in RwCats

\* C2 (as stated): in a plain buffer, an RW1C bit that is 1 stays 1 when an
\* unrelated RW field is set, and is 0 after its own setter was called.
C2_OwnSetterClearsInBuffer ==
    (out = "written" /\ ~hw) =>
        \A g \in Fields(target) :
            (g.cat = "rw1c_bit" /\ g.lo \in snap) =>
                /\ (g.name \notin touched /\ RwTouched) => g.lo \in Stored
                /\ g.name \in touched => g.lo \notin Stored

\* C2 (amended): in a plain buffer, an RW1C bit that is 1 stays 1 when an
\* unrelated RW field is set, and its own setter writes 1 into it, so that it
\* still reads 1.
C2_OwnSetterWritesOne ==
    (out = "written" /\ ~hw) =>
        \A g \in Fields(target) :
            (g.cat = "rw1c_bit" /\ g.lo \in snap) =>
                /\ (g.name \notin touched /\ RwTouched) => g.lo \in Stored
                /\ g.name \in touched => g.lo \in Stored

C2_Witness ==
    /\ out = "written"
    /\ target = "dcportsc"
    /\ touched = {"port_enabled_disabled", "connect_status_change"}
    /\ {17, 23} \subseteq snap
    /\ {17, 23} \subseteq Stored
    /\ 1 \in Stored /\ 1 \notin snap

\* C3: an address setter succeeds exactly on 16-byte aligned addresses, its
\* getter then returns the address, and from an all-zero register the getters
\* only ever return aligned addresses.
C3_AlignmentEnforced ==
    /\ (out = "set" /\ lastCall.name \in AddressFields) =>
          /\ Aligned16(lastCall.arg)
          /\ Get(Called, cur) = lastCall.arg
    /\ (out = "panic" /\ lastCall.name \in AddressFields) => ~Aligned16(lastCall.arg)
    /\ zero0 =>
          \A f \in Fields(target) :
              f.name \in AddressFields =>
                  /\ Aligned16(Get(f, Stored))
                  /\ pc = "holding" => Aligned16(Get(f, cur))

\* set(0x1000) succeeded, then set(0x1004) aborted.
C3_Witness ==
    /\ target = "dcerstba"
    /\ zero0
    /\ out = "panic"
    /\ lastCall.arg = Hex(<<1, 0, 0, 4>>)
    /\ lastCall.before = Hex(<<1, 0, 0, 0>>)
    /\ EventRingSegmentTableBaseAddress_get(cur) = Hex(<<1, 0, 0, 0>>)

RoundTripFields ==
    {"erst_size", "dequeue_erst_segment_index", "link_status_event_enable",
     "debug_capability_enable", "port_enabled_disabled", "dbc_protocol",
     "vendor_id", "product_id", "device_revision", "msi_x_enable"}

\* C4: after set(v) on an RW field the getter returns v and every bit outside
\* the field's range is what it was before the call.
C4_RoundTrip ==
    (out = "set" /\ lastCall.name \in RoundTripFields) =>
        /\ Get(Called, cur) = lastCall.arg
        /\ cur \ Range(Called) = lastCall.before \ Range(Called)

C4_Witness ==
    /\ out = "set"
    /\ target = "dcerstsz"
    /\ lastCall.arg = {0, 15}
    /\ lastCall.before = {16, 31}
    /\ EventRingSegmentTableSize_get(cur) = {0, 15}
    /\ {16, 31} \subseteq cur

RoCats == {"ro_bit", "ro_field", "ro_fn"}

\* C5: a setter leaves the bits of every other field of the register as they
\* were; read-only fields keep their content through any sequence of calls;
\* set_dequeue_pointer keeps bits 0..=3 and the segment index setter keeps
\* bits 3..=63.
C5_FieldIsolation ==
    /\ out = "set" =>
          \A g \in Fields(target) :
              g.name # lastCall.name =>
                  cur \cap Range(g) = lastCall.before \cap Range(g)
    /\ (out = "set" /\ lastCall.name = "dequeue_pointer") =>
          cur \cap (0..3) = lastCall.before \cap (0..3)
    /\ (out = "set" /\ lastCall.name = "dequeue_erst_segment_index") =>
          cur \cap (3..63) = lastCall.before \cap (3..63)
    /\ \A g \in Fields(target) :
          g.cat \in RoCats =>
              /\ pc = "holding" => cur \cap Range(g) = snap \cap Range(g)
              /\ out = "written" => Stored \cap Range(g) = snap \cap Range(g)

C5_Witness ==
    /\ out = "set"
    /\ target = "dcerdp"
    /\ lastCall.name = "dequeue_pointer"
    /\ lastCall.arg = {4, 63}
    /\ lastCall.before \cap (0..3) = {0, 2, 3}
    /\ cur = {0, 2, 3, 4, 63}

\* The fields of Control as C6 gives them, decoded from v.
ControlDecodesAsStated(v) ==
    /\ Get(Field("dcctrl", "dbc_run"), v) = (IF 0 \in v THEN {0} ELSE {})
    /\ Get(Field("dcctrl", "link_status_event_enable"), v) = (IF 1 \in v THEN {0} ELSE {})
    /\ Get(Field("dcctrl", "halt_out_tr"), v) = (IF 2 \in v THEN {0} ELSE {})
    /\ Get(Field("dcctrl", "halt_in_tr"), v) = (IF 3 \in v THEN {0} ELSE {})
    /\ Get(Field("dcctrl", "dbc_run_change"), v) = (IF 4 \in v THEN {0} ELSE {})
    /\ Get(Field("dcctrl", "debug_max_burst_size"), v) = {b - 16 : b \in v \cap (16..23)}
    /\ Get(Field("dcctrl", "device_address"), v) = {b - 24 : b \in v \cap (24..30)}
    /\ Get(Field("dcctrl", "debug_capability_enable"), v) = (IF 31 \in v THEN {0} ELSE {})

\* The field values of the scenario: enable, link status event enable and run
\* change true, everything else false or 0.
ScenarioFields(v) ==
    /\ Bool(Get(Field("dcctrl", "debug_capability_enable"), v))
    /\ Bool(Get(Field("dcctrl", "link_status_event_enable"), v))
    /\ Bool(Get(Field("dcctrl", "dbc_run_change"), v))
    /\ ~Bool(Get(Field("dcctrl", "halt_out_tr"), v))
    /\ ~Bool(Get(Field("dcctrl", "halt_in_tr"), v))
    /\ ~Bool(Get(Field("dcctrl", "dbc_run"), v))
    /\ Get(Field("dcctrl", "debug_max_burst_size"), v) = {}
    /\ Get(Field("dcctrl", "device_address"), v) = {}

\* C6: the Control getters return the stated bits of every raw value;
\* 0x8000_0012 decodes to the scenario's field values, and setting those field
\* values from an all-zero register yields 0x8000_0012.
C6_ControlDecodeEncode ==
    target = "dcctrl" =>
        \A v \in {Stored, cur} :
            /\ ControlDecodesAsStated(v)
            /\ v = Hex(<<8, 0, 0, 0, 0, 0, 1, 2>>) => ScenarioFields(v)
            /\ (zero0 /\ ScenarioFields(v)) => v = Hex(<<8, 0, 0, 0, 0, 0, 1, 2>>)

C6_Witness ==
    /\ target = "dcctrl"
    /\ zero0
    /\ out = "written"
    /\ ScenarioFields(Stored)
    /\ Stored = {1, 4, 31}

\* C7: bir is the low 3 bits of the Table Offset word, offset is the word with
\* them cleared, offset + bir is the word; 0x1007 gives bir 7 and offset 0x1000.
C7_TableOffsetDecode ==
    (target = "table_offset" /\ pc = "holding") =>
        LET bir == Get(TargetField("bir"), cur)
            offset == Get(TargetField("offset"), cur)
        IN  /\ bir = cur \cap {0, 1, 2}
            /\ offset \cap {0, 1, 2} = {}
            /\ offset \cap (3..31) = cur \cap (3..31)
            /\ Add(offset, bir, 32) = cur
            /\ cur = Hex(<<1, 0, 0, 7>>) =>
                  (bir = Hex(<<7>>) /\ offset = Hex(<<1, 0, 0, 0>>))

C7_Witness ==
    /\ target = "table_offset"
    /\ pc = "holding"
    /\ cur = Hex(<<1, 0, 0, 7>>)
    /\ TableOffset_offset(cur) = {12}

\* The offsets and widths C8 states.
StatedOffset ==
    [dcid |-> 0, dcdb |-> 4, dcerstsz |-> 8, dcerstba |-> 16, dcerdp |-> 24,
     dcctrl |-> 32, dcst |-> 36, dcportsc |-> 40, dccp |-> 48, dcddi1 |-> 56,
     dcddi2 |-> 60]

StatedWidth(r) == IF r \in {"dcerstba", "dcerdp", "dccp"} THEN 64 ELSE 32

\* What a w-bit register reads from the untouched pattern.
PatternWord(w) == {32 * k + j : k \in 0..((w \div 32) - 1), j \in {0, 31}}

\* The accessors are bound as stated, to pairwise disjoint byte ranges, and
\* every register but the target still reads the pattern.
DebugBoundAsStated ==
    (target \in DebugRegs /\ pc # "unbound") =>
        /\ DOMAIN bound = DebugRegs
        /\ \A r \in DebugRegs :
              /\ bound[r] = base + StatedOffset[r]
              /\ Width(r) = StatedWidth(r)
        /\ \A r, q \in DebugRegs :
              r # q => \/ bound[r] + (Width(r) \div 8) <= bound[q]
                       \/ bound[q] + (Width(q) \div 8) <= bound[r]
        /\ \A q \in DebugRegs \ {target} :
              Single_read(mem, bound[q], Width(q)) = PatternWord(StatedWidth(q))

RunBit == CBit("dbc_run")

RunChangeBit == CBit("dbc_run_change")

\* The caller's write of an update that called DbC Run Change's clear.
OwnClear ==
    /\ pc = "holding"
    /\ out' = "written"
    /\ "dbc_run_change" \in touched

\* The caller's write of a value on which no setter was called.
BareWriteBack ==
    /\ pc = "holding"
    /\ out' = "written"
    /\ touched = {}

\* C9: once the caller has set a halt bit in Running, the controller eventually
\* is Halted with DbC Run = 0 and DbC Run Change = 1, and DbC Run Change stays
\* 1 across the caller's updates of other Control fields until the caller calls
\* its clear.
C9_HaltHandshake ==
    /\ (phase = "Halting") ~>
          (phase = "Halted" /\ RunBit \notin Stored /\ RunChangeBit \in Stored)
    /\ [][(phase = "Halted" /\ RunChangeBit \in Stored /\ ~OwnClear /\ ~BareWriteBack)
             => RunChangeBit \in Stored']_vars

\* C10: a rejected address leaves the value as it was before the call, and the
\* update it aborts writes nothing.
C10_RejectedSetHasNoEffect ==
    out = "panic" =>
        /\ lastCall.name \in AddressFields
        /\ cur = lastCall.before
        /\ pc = "idle"
        /\ Stored = snap
        /\ access = "read"

C10_Witness ==
    /\ out = "panic"
    /\ target = "dccp"
    /\ lastCall.arg = Hex(<<1, 0, 0, 4>>)
    /\ lastCall.before = {4, 63}
    /\ ContextPointer_get(cur) = {4, 63}
    /\ Stored = {4, 63}

====
